---- MODULE Spec2Model ----
(***************************************************************************)
(* The virtualfs backend: a metadata table (SQLite, table "files") beside  *)
(* a content tree that an external consumer empties.  The model follows    *)
(* src/unnamed/part_000 (the variant with compare-before-write in Put,     *)
(* the RWMutex and the transactional directory materialisation).           *)
(*                                                                         *)
(* Paths are sequences of segments: "a/b" is <<"a","b">>, "" is <<>> and   *)
(* "." (what path.Dir returns for a path without separator) is <<".">>.    *)
(* Times are counted in ticks, TicksPerSec ticks to the second; the        *)
(* RFC3339 text of a time is identified with its whole second.             *)
(***************************************************************************)
EXTENDS Integers, Sequences, FiniteSets, TLC

\* Largest whole second of the clock and of the sources' modtimes.
MaxSec == 1
\* Sub-second resolution of a time.Time value: ticks per second.
TicksPerSec == 2

Secs == 0..MaxSec
Ticks == 0..((MaxSec + 1) * TicksPerSec - 1)

\* ------------------------------------------------------------------ paths
Root == <<>>
Dot == <<".">>
\* The remotes the driver names.  "A" differs from "a" in case only: SQLite's
\* LIKE does not tell them apart, Go's string comparison does.
Remotes == {<<"a">>, <<"a", "b">>, <<"a", "b", "c">>, <<"A">>}
\* Directory arguments of List, Mkdir and Rmdir.
DirArgs == Remotes \cup {Root}
ListArgs == Remotes \cup {Root, Dot}
\* Primary keys the table can hold.
Keys == Remotes \cup {Dot}

\* path.Dir: all but the last element; "." when nothing is left.
PathDir(p) ==
    IF Len(p) <= 1 THEN Dot ELSE SubSeq(p, 1, Len(p) - 1)

\* Fs.fullPath relative to the root directory: path.Join cleans "." away.
fullPath(remote) ==
    IF remote = Dot THEN Root ELSE remote

\* The directory of fullPath(remote) on disk, relative to the root directory.
DiskParent(remote) ==
    IF Len(fullPath(remote)) <= 1 THEN Root
    ELSE SubSeq(fullPath(remote), 1, Len(fullPath(remote)) - 1)

IsPrefixOrEq(q, p) ==
    Len(q) <= Len(p) /\ SubSeq(p, 1, Len(q)) = q

\* SQLite folds ASCII case when LIKE compares characters.
Fold(seg) ==
    IF seg = "A" THEN "a" ELSE seg

FoldPath(p) ==
    [i \in 1..Len(p) |-> Fold(p[i])]

\* remote LIKE dir || '/%' : remote starts with dir and a slash, case folded.
Like(remote, dir) ==
    /\ Len(remote) > Len(dir)
    /\ FoldPath(SubSeq(remote, 1, Len(dir))) = FoldPath(dir)

\* remote NOT LIKE '%/%' : no separator in remote.
NoSeparator(remote) ==
    Len(remote) = 1

\* --------------------------------------------------------------- contents
Contents == {"c1", "c2", "c3"}

\* io.Copy's byte count for a content.
SizeOf(c) ==
    IF c = "c3" THEN 2 ELSE 1

\* The MD5 digest the multi hasher computes over the bytes copied.
MD5(c) ==
    CASE c = "c1" -> "h1"
      [] c = "c2" -> "h2"
      [] OTHER -> "h3"

\* ------------------------------------------------------------------ times
\* time.Time.Format(time.RFC3339): the layout has no fractional seconds.
Format(t) ==
    t \div TicksPerSec

\* time.Parse(time.RFC3339, s) of a text written by Format.
Parse(s) ==
    s * TicksPerSec

\* ------------------------------------------------------------- candidates
\* What Put and Update are given: the source object info and its byte stream.
\* hashes: "md5" the source fs supports MD5 and returns the digest, "err" it
\* supports MD5 but src.Hash returns "" for this file, "none" no MD5 support.
HashModes == {"md5", "err", "none"}
Candidates == [content : Contents, modTime : Ticks, hashes : HashModes]

SrcSize(src) ==
    SizeOf(src.content)

SrcSupportsMD5(src) ==
    src.hashes # "none"

SrcHash(src) ==
    IF src.hashes = "md5" THEN MD5(src.content) ELSE ""

\* ---------------------------------------------------------------- objects
\* The Object struct as List and NewObject fill it from a row.
Scan(row, remote) ==
    [remote |-> remote, size |-> row.size, modTime |-> Parse(row.mod_time),
     hasHash |-> row.has_hash, hash |-> row.hash, deleted |-> row.deleted,
     isDir |-> row.is_dir]

ObjSize(o) ==
    IF o.deleted THEN 0 ELSE o.size

ObjRemote(o) ==
    o.remote

VARIABLES
    db,      \* the files table: a function from the keys present to their rows
    node,    \* the content tree: "none", "dir" or the content of the file
    marker,  \* the remotes whose <remote>.delete marker file exists
    last,    \* the last call issued alone: operation, argument, decision, error
    held,    \* the Object structs the driver keeps, by handle
    proc,    \* the calls in flight: for each, its arguments and where it stands
    start    \* table, tree and markers when the calls in flight were issued

vars == <<db, node, marker, last, held, proc, start>>

\* What a driver that keeps no object and issues one call at a time leaves alone.
kept == <<held, proc, start>>


\* ------------------------------------------------------------ the table
NoRows == [k \in {} |-> 0]

DirRow(now) ==
    [size |-> 0, mod_time |-> Format(now), has_hash |-> FALSE, hash |-> "",
     deleted |-> FALSE, is_dir |-> TRUE]

\* Mutant: a row that exists keeps its deleted flag.
Upsert_KeepDeleted(d, remote, row) ==
    [k \in DOMAIN d \cup {remote} |->
        IF k # remote THEN d[k]
        ELSE IF remote \in DOMAIN d THEN [row EXCEPT !.deleted = d[remote].deleted]
        ELSE row]

\* INSERT OR REPLACE INTO files ... : the row for remote becomes row.
Upsert(d, remote, row) ==
    [k \in DOMAIN d \cup {remote} |-> IF k = remote THEN row ELSE d[k]]

\* INSERT OR IGNORE INTO files ... : only an absent key gains the row.
InsertOrIgnore(d, remote, row) ==
    IF remote \in DOMAIN d THEN d ELSE Upsert(d, remote, row)

\* Mutant: the row is deleted whatever its is_dir flag.
DeleteDir_AnyRow(d, remote) ==
    [k \in DOMAIN d \ {remote} |-> d[k]]

\* DELETE FROM files WHERE remote = ? AND is_dir = 1
DeleteDir(d, remote) ==
    IF remote \in DOMAIN d /\ d[remote].is_dir
    THEN [k \in DOMAIN d \ {remote} |-> d[k]]
    ELSE d

\* Mutant: an upsert that refreshes mod_time of a row that exists.
ensureDirectoryStructure_Touch(d, remote, now) ==
    [k \in DOMAIN d \cup {SubSeq(PathDir(remote), 1, i) : i \in 1..Len(PathDir(remote))} |->
        IF k \notin {SubSeq(PathDir(remote), 1, i) : i \in 1..Len(PathDir(remote))}
        THEN d[k]
        ELSE IF k \in DOMAIN d THEN [d[k] EXCEPT !.mod_time = Format(now)]
        ELSE [size |-> 0, mod_time |-> Format(now), has_hash |-> FALSE, hash |-> "",
              deleted |-> FALSE, is_dir |-> TRUE]]

\* Mutant: INSERT OR REPLACE, a row that exists is overwritten.
ensureDirectoryStructure_Replace(d, remote, now) ==
    [k \in DOMAIN d \cup {SubSeq(PathDir(remote), 1, i) : i \in 1..Len(PathDir(remote))} |->
        IF k \in {SubSeq(PathDir(remote), 1, i) : i \in 1..Len(PathDir(remote))}
        THEN [size |-> 0, mod_time |-> Format(now), has_hash |-> FALSE, hash |-> "",
              deleted |-> FALSE, is_dir |-> TRUE]
        ELSE d[k]]

\* Fs.ensureDirectoryStructure: strings.Split(path.Dir(remote), "/"), then one
\* INSERT OR IGNORE per accumulated prefix, all in one transaction.  The rows
\* of one call carry the same second of time.Now().
ensureDirectoryStructure(d, remote, now) ==
    LET parts == PathDir(remote)
        currentPaths == {SubSeq(parts, 1, i) : i \in 1..Len(parts)}
    IN [k \in DOMAIN d \cup currentPaths |->
           IF k \in DOMAIN d THEN d[k] ELSE DirRow(now)]

DirEntry(o) ==
    [kind |-> "dir", remote |-> o.remote, modTime |-> o.modTime]

FileEntry(o) ==
    [kind |-> "file", remote |-> o.remote, modTime |-> o.modTime,
     size |-> ObjSize(o), hash |-> o.hash]

\* The rows the query of Fs.List selects.
ListQuery(d, dir) ==
    IF dir = Root
    THEN {k \in DOMAIN d : NoSeparator(k) /\ ~d[k].deleted}
    ELSE {k \in DOMAIN d : Like(k, dir) /\ ~d[k].deleted}

\* Mutant: every row the query selects becomes an entry.
List_NoDirFilter(d, dir) ==
    {IF d[k].is_dir THEN DirEntry(Scan(d[k], k)) ELSE FileEntry(Scan(d[k], k)) :
        k \in ListQuery(d, dir)}

\* Fs.List: the rows selected, kept when dir is "" or path.Dir(remote) = dir.
List(d, dir) ==
    {IF d[k].is_dir THEN DirEntry(Scan(d[k], k)) ELSE FileEntry(Scan(d[k], k)) :
        k \in {r \in ListQuery(d, dir) : dir = Root \/ PathDir(r) = dir}}

\* Mutant: a directory row is returned as an object.
NewObject_NoDirCheck(d, remote) ==
    IF remote \notin DOMAIN d \/ d[remote].deleted
    THEN {}
    ELSE {Scan(d[remote], remote)}

\* Mutant: an object is found only while its content file is on disk.
NewObject_StatContent(d, remote) ==
    IF remote \notin DOMAIN d \/ d[remote].deleted \/ d[remote].is_dir
       \/ node[remote] \notin Contents
    THEN {}
    ELSE {Scan(d[remote], remote)}

\* Fs.NewObject: {} is fs.ErrorObjectNotFound, else the one object found.
NewObject(d, remote) ==
    IF remote \notin DOMAIN d \/ d[remote].deleted \/ d[remote].is_dir
    THEN {}
    ELSE {Scan(d[remote], remote)}

\* Mutant: the comparison without the hash check.
ShouldUpdate_NoHash(src, o) ==
    IF SrcSize(src) # ObjSize(o) THEN TRUE
    ELSE src.modTime # o.modTime

\* The comparison of Fs.Put, lines 249-264.
ShouldUpdate(src, o) ==
    IF SrcSize(src) # ObjSize(o) THEN TRUE
    ELSE IF src.modTime # o.modTime THEN TRUE
    ELSE IF SrcSupportsMD5(src) THEN SrcHash(src) # o.hash
    ELSE FALSE

\* What Put decides for a candidate: create when NewObject finds nothing.
PutDecision(d, remote, src) ==
    IF NewObject(d, remote) = {} THEN "create"
    ELSE IF ShouldUpdate(src, CHOOSE o \in NewObject(d, remote) : TRUE)
         THEN "update"
         ELSE "skip"

\* Mutant: the hash is the one the source reports.
FileRow_SrcHash(src) ==
    [size |-> SizeOf(src.content), mod_time |-> Format(src.modTime),
     has_hash |-> SrcHash(src) # "", hash |-> SrcHash(src),
     deleted |-> FALSE, is_dir |-> FALSE]

\* The row Put upserts after copying the stream.
FileRow(src) ==
    [size |-> SizeOf(src.content), mod_time |-> Format(src.modTime),
     has_hash |-> MD5(src.content) # "", hash |-> MD5(src.content),
     deleted |-> FALSE, is_dir |-> FALSE]

\* ------------------------------------------------------- the content tree
\* A content file that os.Create truncated and io.Copy did not finish.
Partial == "partial"

\* What the tree holds at a path is a regular file.
IsFile(x) ==
    x \in Contents \cup {Partial}

DirExists(nd, dir) ==
    dir = Root \/ nd[dir] = "dir"

Children(dir) ==
    {q \in Remotes : Len(q) = Len(dir) + 1 /\ SubSeq(q, 1, Len(dir)) = dir}

\* A directory holds no content file, no directory and no marker file.
DirEmpty(nd, mk, dir) ==
    \A q \in Children(dir) : nd[q] = "none" /\ q \notin mk

\* os.MkdirAll succeeds unless an element of the path is a file.
MkdirAllOk(nd, dir) ==
    \A i \in 1..Len(dir) : ~IsFile(nd[SubSeq(dir, 1, i)])

\* The tree after os.MkdirAll: elements are created from the top down to the
\* first one that is a file.
MkdirAllNode(nd, dir) ==
    [q \in Remotes |->
        IF /\ IsPrefixOrEq(q, dir)
           /\ nd[q] = "none"
           /\ \A j \in 1..Len(q) : ~IsFile(nd[SubSeq(dir, 1, j)])
        THEN "dir"
        ELSE nd[q]]

\* os.Create succeeds when the directory exists and the path is no directory.
CreateOk(nd, remote) ==
    DirExists(nd, DiskParent(remote)) /\ nd[remote] # "dir"

\* os.Remove outcomes: "gone" (removed), "notexist", "error" (a directory that
\* is not empty).  It removes a file or an empty directory alike.
OsRemove(nd, mk, p) ==
    IF p = Root THEN "error"
    ELSE IF nd[p] = "none" THEN "notexist"
    ELSE IF nd[p] = "dir" /\ ~DirEmpty(nd, mk, p) THEN "error"
    ELSE "gone"

\* -------------------------------------------------------------- the calls
Call(op, path, cand, decision, err) ==
    [op |-> op, path |-> path, cand |-> cand, decision |-> decision, err |-> err]

Init ==
    /\ db = NoRows
    /\ node = [p \in Remotes |-> "none"]
    /\ marker = {}
    /\ last = Call("NewFs", Root, {}, "", "nil")
    /\ held = NoRows
    /\ proc = NoRows
    /\ start = NoRows

\* Mutant: a skip writes the content file again.
Put_SkipRewrites(remote, src, now) ==
    LET decision == PutDecision(db, remote, src)
    IN
    /\ db' = IF decision = "skip" THEN db
             ELSE Upsert(ensureDirectoryStructure(db, remote, now), remote,
                         [size |-> SizeOf(src.content), mod_time |-> Format(src.modTime),
                          has_hash |-> TRUE, hash |-> MD5(src.content),
                          deleted |-> FALSE, is_dir |-> FALSE])
    /\ node' = [MkdirAllNode(node, DiskParent(remote)) EXCEPT ![remote] = src.content]
    /\ UNCHANGED marker
    /\ last' = Call("Put", remote, {src}, decision, "nil")

\* Fs.Put
Put(remote, src, now) ==
    LET decision == PutDecision(db, remote, src)
        db1 == ensureDirectoryStructure(db, remote, now)
        node1 == MkdirAllNode(node, DiskParent(remote))
    IN
    IF decision = "skip"
    THEN /\ UNCHANGED <<db, node, marker>>
         /\ last' = Call("Put", remote, {src}, decision, "nil")
    ELSE IF ~MkdirAllOk(node, DiskParent(remote)) \/ ~CreateOk(node1, remote)
    THEN /\ db' = db1
         /\ node' = node1
         /\ UNCHANGED marker
         /\ last' = Call("Put", remote, {src}, decision, "IO")
    ELSE /\ db' = Upsert(db1, remote, FileRow(src))
         /\ node' = [node1 EXCEPT ![remote] = src.content]
         /\ UNCHANGED marker
         /\ last' = Call("Put", remote, {src}, decision, "nil")

\* Mutant: the row is upserted although io.Copy failed.
PutCopyFails_Commits(remote, src, now) ==
    /\ PutDecision(db, remote, src) # "skip"
    /\ db' = Upsert(ensureDirectoryStructure(db, remote, now), remote,
                    [size |-> SizeOf(src.content), mod_time |-> Format(src.modTime),
                     has_hash |-> TRUE, hash |-> MD5(src.content),
                     deleted |-> FALSE, is_dir |-> FALSE])
    /\ node' = [MkdirAllNode(node, DiskParent(remote)) EXCEPT ![remote] = Partial]
    /\ UNCHANGED marker
    /\ last' = Call("Put", remote, {src}, PutDecision(db, remote, src), "IO")

\* Fs.Put when io.Copy returns an error (lines 302-305): the directory rows are
\* in the table, os.Create has truncated the content file, part of the stream
\* is in it, and Put returns the error before the upsert.
PutCopyFails(remote, src, now) ==
    LET decision == PutDecision(db, remote, src)
        db1 == ensureDirectoryStructure(db, remote, now)
        node1 == MkdirAllNode(node, DiskParent(remote))
    IN
    /\ decision # "skip"
    /\ MkdirAllOk(node, DiskParent(remote))
    /\ CreateOk(node1, remote)
    /\ db' = db1
    /\ node' = [node1 EXCEPT ![remote] = Partial]
    /\ UNCHANGED marker
    /\ last' = Call("Put", remote, {src}, decision, "IO")

\* The object Put returns: the existing object on a skip, else a new one that
\* carries the source's modtime.
PutReturn(d, remote, src, decision) ==
    IF decision = "skip" THEN NewObject(d, remote)
    ELSE {[remote |-> remote, size |-> SizeOf(src.content), modTime |-> src.modTime,
           hasHash |-> MD5(src.content) # "", hash |-> MD5(src.content),
           deleted |-> FALSE, isDir |-> FALSE]}

\* Fs.Mkdir
Mkdir(dir, now) ==
    IF ~MkdirAllOk(node, fullPath(dir))
    THEN /\ node' = MkdirAllNode(node, fullPath(dir))
         /\ UNCHANGED <<db, marker>>
         /\ last' = Call("Mkdir", dir, {}, "", "IO")
    ELSE /\ node' = MkdirAllNode(node, fullPath(dir))
         /\ db' = ensureDirectoryStructure(db, dir, now)
         /\ UNCHANGED marker
         /\ last' = Call("Mkdir", dir, {}, "", "nil")

\* The COUNT(*) of Fs.Rmdir.
RmdirCount(d, dir) ==
    Cardinality({k \in DOMAIN d : Like(k, dir) /\ k # dir /\ ~d[k].deleted})

\* Fs.Rmdir.  The root directory holds virtualfs.db, so os.Remove refuses it.
Rmdir(dir) ==
    LET removed == OsRemove(node, marker, fullPath(dir))
        node1 == IF removed = "gone" THEN [node EXCEPT ![dir] = "none"] ELSE node
    IN
    IF removed = "notexist"
    THEN /\ UNCHANGED <<db, node, marker>>
         /\ last' = Call("Rmdir", dir, {}, "", "ErrorDirNotFound")
    ELSE IF removed = "error"
    THEN /\ UNCHANGED <<db, node, marker>>
         /\ last' = Call("Rmdir", dir, {}, "", "IO")
    ELSE IF RmdirCount(db, dir) > 0
    THEN /\ node' = node1
         /\ UNCHANGED <<db, marker>>
         /\ last' = Call("Rmdir", dir, {}, "", "NotEmpty")
    ELSE /\ node' = node1
         /\ db' = DeleteDir(db, dir)
         /\ UNCHANGED marker
         /\ last' = Call("Rmdir", dir, {}, "", "nil")

\* Mutant: the tombstone forgets the size and the hash of the file.
SetDeleted_Reset(d, remote, now) ==
    [k \in DOMAIN d |->
        IF k = remote
        THEN [d[k] EXCEPT !.deleted = TRUE, !.mod_time = Format(now),
                          !.size = 0, !.has_hash = FALSE, !.hash = ""]
        ELSE d[k]]

\* Mutant: the row is deleted instead of flagged.
SetDeleted_HardDelete(d, remote, now) ==
    [k \in DOMAIN d \ {remote} |-> d[k]]

\* UPDATE files SET deleted = 1, mod_time = ? WHERE remote = ?
SetDeleted(d, remote, now) ==
    [k \in DOMAIN d |->
        IF k = remote THEN [d[k] EXCEPT !.deleted = TRUE, !.mod_time = Format(now)]
        ELSE d[k]]

\* Object.Remove on the object o.
Remove(o, now) ==
    LET removed == OsRemove(node, marker, fullPath(o.remote))
        node1 == IF removed = "gone" THEN [node EXCEPT ![o.remote] = "none"] ELSE node
    IN
    IF removed = "error"
    THEN /\ UNCHANGED <<db, node, marker>>
         /\ last' = Call("Remove", o.remote, {}, "", "IO")
    ELSE IF ~DirExists(node1, DiskParent(o.remote))
    THEN /\ node' = node1
         /\ UNCHANGED <<db, marker>>
         /\ last' = Call("Remove", o.remote, {}, "", "IO")
    ELSE /\ node' = node1
         /\ marker' = marker \cup {o.remote}
         /\ db' = SetDeleted(db, o.remote, now)
         /\ last' = Call("Remove", o.remote, {}, "", "nil")

\* The driver removes an object it has just looked up.
RemoveFound(remote, now) ==
    /\ NewObject(db, remote) # {}
    /\ Remove(CHOOSE o \in NewObject(db, remote) : TRUE, now)

\* Mutant: the row is rewritten with its hash cleared.
SetModTimeRow_ClearsHash(d, remote, modTime) ==
    [k \in DOMAIN d |->
        IF k = remote
        THEN [d[k] EXCEPT !.mod_time = Format(modTime), !.has_hash = FALSE, !.hash = ""]
        ELSE d[k]]

\* UPDATE files SET mod_time = ? WHERE remote = ?
SetModTimeRow(d, remote, modTime) ==
    [k \in DOMAIN d |->
        IF k = remote THEN [d[k] EXCEPT !.mod_time = Format(modTime)] ELSE d[k]]

\* Object.SetModTime on the object o.
SetModTime(o, modTime) ==
    /\ db' = SetModTimeRow(db, o.remote, modTime)
    /\ UNCHANGED <<node, marker>>
    /\ last' = Call("SetModTime", o.remote, {}, "", "nil")

\* The driver sets the modtime of an object it has just looked up.
SetModTimeFound(remote, modTime) ==
    /\ NewObject(db, remote) # {}
    /\ SetModTime(CHOOSE o \in NewObject(db, remote) : TRUE, modTime)

\* The comparison of Object.Update, lines 520-529.
UpdateShouldUpdate(src, o) ==
    IF /\ o.size = SrcSize(src)
       /\ (~SrcSupportsMD5(src) \/ SrcHash(src) = o.hash)
       /\ src.modTime # o.modTime
    THEN FALSE
    ELSE TRUE

\* UPDATE files SET size = ?, mod_time = ?, has_hash = ?, hash = ?,
\* deleted = 0, is_dir = 0 WHERE remote = ?
UpdateRow(d, remote, row) ==
    [k \in DOMAIN d |-> IF k = remote THEN row ELSE d[k]]

\* Object.Update on the object o.
Update(o, src) ==
    LET decision == IF UpdateShouldUpdate(src, o) THEN "update" ELSE "skip"
        node1 == MkdirAllNode(node, DiskParent(o.remote))
    IN
    IF decision = "skip"
    THEN /\ UNCHANGED <<db, node, marker>>
         /\ last' = Call("Update", o.remote, {src}, decision, "nil")
    ELSE IF ~MkdirAllOk(node, DiskParent(o.remote)) \/ ~CreateOk(node1, o.remote)
    THEN /\ node' = node1
         /\ UNCHANGED <<db, marker>>
         /\ last' = Call("Update", o.remote, {src}, decision, "IO")
    ELSE /\ node' = [node1 EXCEPT ![o.remote] = src.content]
         /\ db' = UpdateRow(db, o.remote, FileRow(src))
         /\ UNCHANGED marker
         /\ last' = Call("Update", o.remote, {src}, decision, "nil")

\* Object.Update when io.Copy returns an error (lines 556-559).
UpdateCopyFails(o, src) ==
    LET node1 == MkdirAllNode(node, DiskParent(o.remote))
    IN
    /\ UpdateShouldUpdate(src, o)
    /\ MkdirAllOk(node, DiskParent(o.remote))
    /\ CreateOk(node1, o.remote)
    /\ node' = [node1 EXCEPT ![o.remote] = Partial]
    /\ UNCHANGED <<db, marker>>
    /\ last' = Call("Update", o.remote, {src}, "update", "IO")

UpdateCopyFailsFound(remote, src) ==
    /\ NewObject(db, remote) # {}
    /\ UpdateCopyFails(CHOOSE o \in NewObject(db, remote) : TRUE, src)

\* The driver updates an object it has just looked up.
UpdateFound(remote, src) ==
    /\ NewObject(db, remote) # {}
    /\ Update(CHOOSE o \in NewObject(db, remote) : TRUE, src)

\* Fs.NewObject as a call of the driver.
Lookup(remote) ==
    /\ UNCHANGED <<db, node, marker>>
    /\ last' = Call("NewObject", remote, {}, "",
                    IF NewObject(db, remote) = {} THEN "ErrorObjectNotFound" ELSE "nil")

\* Fs.List as a call of the driver.
ListDir(dir) ==
    /\ UNCHANGED <<db, node, marker>>
    /\ last' = Call("List", dir, {}, "", "nil")

\* The external consumer takes a content file away (test.sh,
\* simulate_ingestion_process); marker files and the database stay.
Consume(remote) ==
    /\ IsFile(node[remote])
    /\ node' = [node EXCEPT ![remote] = "none"]
    /\ UNCHANGED <<db, marker, last>>

\* Clock readings of time.Now(), on whole seconds (Format drops the rest).
Clock == {Parse(x) : x \in Secs}

\* The candidates and clock reading of the specification over all remotes:
\* one content, a whole-second and a sub-second modtime, the latest second.
FewCandidates == {src \in Candidates :
                    src.content = "c1" /\ src.modTime \in {0, 1} /\ src.hashes = "md5"}
LateClock == {Parse(MaxSec)}

\* The driver working on all remotes.
Next ==
    \/ \E remote \in Remotes, src \in FewCandidates, now \in LateClock :
          Put(remote, src, now) /\ UNCHANGED kept
    \/ \E remote \in Remotes, src \in FewCandidates :
          UpdateFound(remote, src) /\ UNCHANGED kept
    \/ \E remote \in Remotes, modTime \in {0, 1} :
          SetModTimeFound(remote, modTime) /\ UNCHANGED kept
    \/ \E dir \in DirArgs, now \in LateClock : Mkdir(dir, now) /\ UNCHANGED kept
    \/ \E dir \in DirArgs : Rmdir(dir) /\ UNCHANGED kept
    \/ \E remote \in Remotes, now \in LateClock : RemoveFound(remote, now) /\ UNCHANGED kept
    \/ \E remote \in Remotes : Lookup(remote) /\ UNCHANGED kept
    \/ \E dir \in ListArgs : ListDir(dir) /\ UNCHANGED kept
    \/ \E remote \in Remotes : Consume(remote) /\ UNCHANGED kept

Spec == Init /\ [][Next]_vars

\* The driver working on one file with every candidate and clock reading; the
\* streams that break are those of the few candidates.
TheFile == <<"a", "b", "c">>

NextFile ==
    \/ \E src \in Candidates, now \in Clock : Put(TheFile, src, now) /\ UNCHANGED kept
    \/ \E src \in Candidates : UpdateFound(TheFile, src) /\ UNCHANGED kept
    \/ \E src \in FewCandidates, now \in Clock :
          PutCopyFails(TheFile, src, now) /\ UNCHANGED kept
    \/ \E src \in FewCandidates : UpdateCopyFailsFound(TheFile, src) /\ UNCHANGED kept
    \/ \E modTime \in Ticks : SetModTimeFound(TheFile, modTime) /\ UNCHANGED kept
    \/ \E now \in Clock : RemoveFound(TheFile, now) /\ UNCHANGED kept
    \/ Lookup(TheFile) /\ UNCHANGED kept
    \/ \E dir \in {Root, PathDir(TheFile)} : ListDir(dir) /\ UNCHANGED kept
    \/ Consume(TheFile) /\ UNCHANGED kept

SpecFile == Init /\ [][NextFile]_vars

\* The calls that write, issued one after the other, with no consumer.
NextEngine ==
    \/ \E remote \in Remotes, src \in FewCandidates, now \in LateClock :
          Put(remote, src, now) /\ UNCHANGED kept
    \/ \E remote \in Remotes, src \in FewCandidates :
          UpdateFound(remote, src) /\ UNCHANGED kept
    \/ \E dir \in DirArgs, now \in LateClock : Mkdir(dir, now) /\ UNCHANGED kept
    \/ \E dir \in DirArgs : Rmdir(dir) /\ UNCHANGED kept
    \/ \E remote \in Remotes, now \in LateClock : RemoveFound(remote, now) /\ UNCHANGED kept

SpecEngine == Init /\ [][NextEngine]_vars

\* ---------------------------------------------------------------- handles
Handles == {"h1", "h2"}

\* The driver keeps the object NewObject returns under the handle h.
Obtain(h, remote) ==
    /\ NewObject(db, remote) # {}
    /\ held' = [k \in DOMAIN held \cup {h} |->
                   IF k = h THEN CHOOSE o \in NewObject(db, remote) : TRUE ELSE held[k]]
    /\ UNCHANGED <<db, node, marker>>
    /\ last' = Call("NewObject", remote, {}, "", "nil")

\* Object.Remove on a kept object: o.deleted = true once the UPDATE is done.
RemoveHeld(h, now) ==
    /\ h \in DOMAIN held
    /\ Remove(held[h], now)
    /\ held' = IF last'.err = "nil"
               THEN [held EXCEPT ![h].deleted = TRUE]
               ELSE held

\* Object.SetModTime on a kept object: o.modTime = modTime.
SetModTimeHeld(h, modTime) ==
    /\ h \in DOMAIN held
    /\ SetModTime(held[h], modTime)
    /\ held' = [held EXCEPT ![h].modTime = modTime]

\* Object.Update on a kept object: the struct's fields follow the row written.
UpdateHeld(h, src) ==
    /\ h \in DOMAIN held
    /\ Update(held[h], src)
    /\ held' = IF last'.err = "nil" /\ last'.decision = "update"
               THEN [held EXCEPT ![h] =
                        [remote |-> held[h].remote, size |-> SizeOf(src.content),
                         modTime |-> src.modTime, hasHash |-> MD5(src.content) # "",
                         hash |-> MD5(src.content), deleted |-> FALSE, isDir |-> FALSE]]
               ELSE held

\* The candidates of the driver that keeps handles: two sizes, whole seconds.
HandleCandidates == {src \in Candidates :
                       src.content \in {"c1", "c3"} /\ src.modTime = 0 /\ src.hashes = "md5"}

\* The driver working on one file through handles it keeps.
NextHandle ==
    \/ \E h \in Handles : Obtain(h, TheFile) /\ UNCHANGED <<proc, start>>
    \/ \E h \in Handles, now \in LateClock : RemoveHeld(h, now) /\ UNCHANGED <<proc, start>>
    \/ \E h \in Handles, modTime \in {0, 1} :
          SetModTimeHeld(h, modTime) /\ UNCHANGED <<proc, start>>
    \/ \E h \in Handles, src \in HandleCandidates :
          UpdateHeld(h, src) /\ UNCHANGED <<proc, start>>
    \/ \E src \in HandleCandidates, now \in LateClock :
          Put(TheFile, src, now) /\ UNCHANGED kept
    \/ Consume(TheFile) /\ UNCHANGED kept

SpecHandle == Init /\ [][NextHandle]_vars

\* The paths of the driver that keeps handles while the tree changes: a path
\* and a path under it, so that one path is a file now and a directory later.
TreeRemotes == {<<"a">>, <<"a", "b">>}

\* Every operation on two nested paths, those on kept objects included.
NextTree ==
    \/ \E h \in Handles, remote \in TreeRemotes :
          Obtain(h, remote) /\ UNCHANGED <<proc, start>>
    \/ \E h \in Handles, now \in LateClock : RemoveHeld(h, now) /\ UNCHANGED <<proc, start>>
    \/ \E h \in Handles : SetModTimeHeld(h, 1) /\ UNCHANGED <<proc, start>>
    \/ \E h \in Handles, src \in HandleCandidates :
          UpdateHeld(h, src) /\ UNCHANGED <<proc, start>>
    \/ \E remote \in TreeRemotes, src \in HandleCandidates, now \in LateClock :
          Put(remote, src, now) /\ UNCHANGED kept
    \/ \E dir \in TreeRemotes, now \in LateClock : Mkdir(dir, now) /\ UNCHANGED kept
    \/ \E dir \in TreeRemotes : Rmdir(dir) /\ UNCHANGED kept
    \/ \E remote \in TreeRemotes : Consume(remote) /\ UNCHANGED kept

SpecTree == Init /\ [][NextTree]_vars

\* -------------------------------------------------------- calls in flight
\* Table, tree and markers as one value.
State(d, nd, mk) ==
    [db |-> d, node |-> nd, marker |-> mk]

\* A Put call as it is issued: nothing of it has run.
PutProc(remote, src, now) ==
    [op |-> "Put", remote |-> remote, src |-> src, now |-> now,
     pc |-> "lookup", decision |-> "", err |-> "nil"]

Returned(p, err) ==
    [p EXCEPT !.pc = "done", !.err = err]

\* One step of a Put call in flight, from the state st.  Each step is one
\* access to the table (under dbLock) or one system call on the tree:
\*   lookup  NewObject and the comparison (lines 244-270)
\*   ensure  ensureDirectoryStructure (277)
\*   mkdir   os.MkdirAll (283)
\*   create  os.Create, which truncates (288)
\*   copy    io.Copy into the file this call opened (302)
\*   upsert  INSERT OR REPLACE under dbLock (312-319)
Advance(st, p) ==
    CASE p.pc = "lookup" ->
           LET decision == PutDecision(st.db, p.remote, p.src)
           IN [st |-> st,
               p |-> IF decision = "skip"
                     THEN [Returned(p, "nil") EXCEPT !.decision = decision]
                     ELSE [p EXCEPT !.pc = "ensure", !.decision = decision]]
      [] p.pc = "ensure" ->
           [st |-> [st EXCEPT !.db = ensureDirectoryStructure(st.db, p.remote, p.now)],
            p |-> [p EXCEPT !.pc = "mkdir"]]
      [] p.pc = "mkdir" ->
           [st |-> [st EXCEPT !.node = MkdirAllNode(st.node, DiskParent(p.remote))],
            p |-> IF MkdirAllOk(st.node, DiskParent(p.remote))
                  THEN [p EXCEPT !.pc = "create"]
                  ELSE Returned(p, "IO")]
      [] p.pc = "create" ->
           IF CreateOk(st.node, p.remote)
           THEN [st |-> [st EXCEPT !.node[p.remote] = Partial],
                 p |-> [p EXCEPT !.pc = "copy"]]
           ELSE [st |-> st, p |-> Returned(p, "IO")]
      [] p.pc = "copy" ->
           [st |-> IF IsFile(st.node[p.remote])
                   THEN [st EXCEPT !.node[p.remote] = p.src.content]
                   ELSE st,
            p |-> [p EXCEPT !.pc = "upsert"]]
      [] OTHER ->
           [st |-> [st EXCEPT !.db = Upsert(st.db, p.remote, FileRow(p.src))],
            p |-> Returned(p, "nil")]

\* The call run alone from st to its return.
RECURSIVE Finish(_, _)
Finish(st, p) ==
    IF p.pc = "done" THEN st
    ELSE Finish(Advance(st, p).st, Advance(st, p).p)

Procs == {"p1", "p2"}
Idle == DOMAIN proc = {}
AllDone == ~Idle /\ \A id \in DOMAIN proc : proc[id].pc = "done"

\* The driver issues two Put calls at once.
Issue(p1, p2) ==
    /\ Idle
    /\ proc' = [id \in Procs |-> IF id = "p1" THEN p1 ELSE p2]
    /\ start' = State(db, node, marker)
    /\ UNCHANGED <<db, node, marker, last, held>>

\* A call in flight takes its next step; what it returns is kept in proc.
StepProc(id) ==
    /\ id \in DOMAIN proc
    /\ proc[id].pc # "done"
    /\ LET r == Advance(State(db, node, marker), proc[id])
       IN /\ db' = r.st.db
          /\ node' = r.st.node
          /\ marker' = r.st.marker
          /\ proc' = [proc EXCEPT ![id] = r.p]
    /\ UNCHANGED <<last, held, start>>

\* Both calls have returned and the driver goes on.
Collect ==
    /\ AllDone
    /\ proc' = NoRows
    /\ start' = NoRows
    /\ UNCHANGED <<db, node, marker, last, held>>

\* Remotes and candidates of the calls in flight: two contents of different
\* size and digest.
FlightRemotes == {<<"a">>, <<"a", "b">>, <<"A">>}
FlightCandidates == {src \in Candidates :
                       src.content \in {"c1", "c3"} /\ src.modTime = 0 /\ src.hashes = "md5"}

\* The two calls of a batch are interchangeable: the driver names them in a
\* fixed order of remote and content.
Rank(p) ==
    (CASE p.remote = <<"a">> -> 0 [] p.remote = <<"a", "b">> -> 2 [] OTHER -> 4)
        + (IF p.src.content = "c1" THEN 0 ELSE 1)

\* The driver issuing Puts two at a time; between batches it removes objects.
NextFlight ==
    \/ \E r1, r2 \in FlightRemotes, s1, s2 \in FlightCandidates, now \in LateClock :
          /\ Rank(PutProc(r1, s1, now)) <= Rank(PutProc(r2, s2, now))
          /\ Issue(PutProc(r1, s1, now), PutProc(r2, s2, now))
    \/ \E id \in Procs : StepProc(id)
    \/ Collect
    \/ \E remote \in FlightRemotes, now \in LateClock :
          Idle /\ RemoveFound(remote, now) /\ UNCHANGED kept

SpecFlight == Init /\ [][NextFlight]_vars

\* ------------------------------------------------- the steps of a transfer
\* An Update call on the object o, as it is issued.  obj is the struct the
\* method reads and, returning, writes.
UpdateProc(o, src) ==
    [op |-> "Update", remote |-> o.remote, src |-> src, obj |-> o,
     pc |-> "compare", decision |-> "", err |-> "nil"]

\* One step of an Update call in flight:
\*   compare  the comparison with the fields of the struct (520-534)
\*   mkdir    os.MkdirAll (537)
\*   create   os.Create (542)
\*   copy     io.Copy (556)
\*   update   UPDATE under dbLock, then the struct's fields (566-580)
\* mkdir, create and copy are the statements of Put.
AdvanceUpdate(st, p) ==
    CASE p.pc = "compare" ->
           [st |-> st,
            p |-> IF UpdateShouldUpdate(p.src, p.obj)
                  THEN [p EXCEPT !.pc = "mkdir", !.decision = "update"]
                  ELSE [Returned(p, "nil") EXCEPT !.decision = "skip"]]
      [] p.pc = "copy" ->
           [st |-> Advance(st, p).st, p |-> [p EXCEPT !.pc = "update"]]
      [] p.pc = "update" ->
           [st |-> [st EXCEPT !.db = UpdateRow(st.db, p.remote, FileRow(p.src))],
            p |-> [Returned(p, "nil") EXCEPT
                      !.obj = [remote |-> p.remote, size |-> SizeOf(p.src.content),
                               modTime |-> p.src.modTime,
                               hasHash |-> MD5(p.src.content) # "",
                               hash |-> MD5(p.src.content),
                               deleted |-> FALSE, isDir |-> FALSE]]]
      [] OTHER -> Advance(st, p)

\* The statements a call has executed so far, oldest first.
Traced(p) ==
    p @@ [trace |-> <<>>]

\* The driver issues one Put, or one Update on an object it keeps.
IssuePut(remote, src, now) ==
    /\ Idle
    /\ proc' = [id \in {"p1"} |-> Traced(PutProc(remote, src, now))]
    /\ UNCHANGED <<db, node, marker, last, held, start>>

IssueUpdate(h, src) ==
    /\ Idle
    /\ h \in DOMAIN held
    /\ proc' = [id \in {"p1"} |-> Traced(UpdateProc(held[h], src)) @@ [h |-> h]]
    /\ UNCHANGED <<db, node, marker, last, held, start>>

\* The call in flight executes its next statement.
StepTransfer(id) ==
    /\ id \in DOMAIN proc
    /\ proc[id].pc # "done"
    /\ LET r == IF proc[id].op = "Put"
                THEN Advance(State(db, node, marker), proc[id])
                ELSE AdvanceUpdate(State(db, node, marker), proc[id])
       IN /\ db' = r.st.db
          /\ node' = r.st.node
          /\ marker' = r.st.marker
          /\ proc' = [proc EXCEPT ![id] =
                         [r.p EXCEPT !.trace = Append(proc[id].trace, proc[id].pc)]]
          /\ held' = IF proc[id].op = "Update"
                     THEN [held EXCEPT ![proc[id].h] = r.p.obj]
                     ELSE held
    /\ UNCHANGED <<last, start>>

\* The driver transferring one file, statement by statement, and removing it
\* through the objects it keeps.
NextTransfer ==
    \/ \E src \in HandleCandidates, now \in LateClock : IssuePut(TheFile, src, now)
    \/ \E h \in Handles, src \in HandleCandidates : IssueUpdate(h, src)
    \/ \E id \in Procs : StepTransfer(id)
    \/ Collect
    \/ \E h \in Handles : Idle /\ Obtain(h, TheFile) /\ UNCHANGED <<proc, start>>
    \/ \E h \in Handles, now \in LateClock :
          Idle /\ RemoveHeld(h, now) /\ UNCHANGED <<proc, start>>

SpecTransfer == Init /\ [][NextTransfer]_vars

\* ------------------------------------------- the transaction of a Put call
\* A transaction t is the table and the rows the transaction holds: [db, tx].
\* Mutant: no transaction, every statement is committed as it is executed.
TxExec_AutoCommit(t, key, row) ==
    [db |-> InsertOrIgnore(t.db, key, row), tx |-> t.tx]

\* tx.Exec of INSERT OR IGNORE (lines 157-158): the row is held by the
\* transaction; the table does not change before Commit.
TxExec(t, key, row) ==
    [db |-> t.db,
     tx |-> IF key \in DOMAIN t.db \cup DOMAIN t.tx THEN t.tx ELSE Upsert(t.tx, key, row)]

\* tx.Commit (164): the rows held become rows of the table.
TxCommit(t) ==
    [k \in DOMAIN t.db \cup DOMAIN t.tx |-> IF k \in DOMAIN t.tx THEN t.tx[k] ELSE t.db[k]]

\* A call that has not yet begun its transaction.
WithTx(p) ==
    p @@ [tx |-> NoRows, i |-> 0]

\* One step of a Put call, ensureDirectoryStructure taken statement by
\* statement; fail says that the statement returns an error:
\*   ensure  dbLock.Lock, db.Begin (140-149)
\*   insert  the i-th tx.Exec of the loop (152-162)
\*   commit  tx.Commit (164-167)
\* An error return runs the deferred tx.Rollback and dbLock.Unlock; i keeps
\* the index of the statement that failed.
AdvanceTx(st, p, fail) ==
    CASE p.pc = "ensure" ->
           [st |-> st,
            p |-> IF fail THEN Returned(p, "Tx")
                  ELSE [p EXCEPT !.pc = "insert", !.i = 1, !.tx = NoRows]]
      [] p.pc = "insert" ->
           IF fail
           THEN [st |-> st, p |-> Returned([p EXCEPT !.tx = NoRows], "Tx")]
           ELSE LET t == TxExec([db |-> st.db, tx |-> p.tx],
                                SubSeq(PathDir(p.remote), 1, p.i), DirRow(p.now))
                IN [st |-> [st EXCEPT !.db = t.db],
                    p |-> [p EXCEPT !.tx = t.tx, !.i = p.i + 1,
                                    !.pc = IF p.i = Len(PathDir(p.remote))
                                           THEN "commit" ELSE "insert"]]
      [] p.pc = "commit" ->
           IF fail
           THEN [st |-> st, p |-> Returned([p EXCEPT !.tx = NoRows], "Tx")]
           ELSE [st |-> [st EXCEPT !.db = TxCommit([db |-> st.db, tx |-> p.tx])],
                 p |-> [p EXCEPT !.tx = NoRows, !.pc = "mkdir"]]
      [] OTHER -> Advance(st, p)

\* The call holds dbLock for its transaction.
InTx(p) ==
    p.pc \in {"insert", "commit"}

IssueTx(remote, src, now) ==
    /\ Idle
    /\ proc' = [id \in {"p1"} |-> WithTx(PutProc(remote, src, now))]
    /\ start' = State(db, node, marker)
    /\ UNCHANGED <<db, node, marker, last, held>>

StepTx(id, fail) ==
    /\ id \in DOMAIN proc
    /\ proc[id].pc # "done"
    /\ fail => proc[id].pc \in {"ensure", "insert", "commit"}
    /\ LET r == AdvanceTx(State(db, node, marker), proc[id], fail)
       IN /\ db' = r.st.db
          /\ node' = r.st.node
          /\ marker' = r.st.marker
          /\ proc' = [proc EXCEPT ![id] = r.p]
    /\ UNCHANGED <<last, held, start>>

\* Fs.NewObject by another caller: RLock waits while a transaction holds
\* dbLock.
LookupBeside(remote) ==
    /\ \A id \in DOMAIN proc : ~InTx(proc[id])
    /\ Lookup(remote)

TxRemotes == {<<"A">>, <<"a", "b">>, <<"a", "b", "c">>}

\* One Put at a time with statements of its transaction failing, lookups
\* beside it, and removals of files and directories between the calls.
NextTx ==
    \/ \E remote \in TxRemotes, src \in FewCandidates, now \in LateClock :
          IssueTx(remote, src, now)
    \/ \E id \in Procs, fail \in BOOLEAN : StepTx(id, fail)
    \/ Collect
    \/ \E remote \in TxRemotes \cup {<<"a">>} : LookupBeside(remote) /\ UNCHANGED kept
    \/ \E remote \in TxRemotes, now \in LateClock :
          Idle /\ RemoveFound(remote, now) /\ UNCHANGED kept
    \/ \E dir \in {<<"a">>, <<"a", "b">>} : Idle /\ Rmdir(dir) /\ UNCHANGED kept

SpecTx == Init /\ [][NextTx]_vars

\* ------------------------------------------------------ calls under dbLock
\* The other calls as they are issued, and their statements.
RemoveProc(o, now) ==
    [op |-> "Remove", remote |-> o.remote, now |-> now, obj |-> o,
     pc |-> "osremove", err |-> "nil"]

\* Mutant: Remove returns the error of os.Remove also when the content file
\* does not exist.
AdvanceRemove_NotExistFails(st, p) ==
    CASE p.pc = "osremove" ->
           LET removed == OsRemove(st.node, st.marker, fullPath(p.remote))
           IN IF removed # "gone" THEN [st |-> st, p |-> Returned(p, "IO")]
              ELSE [st |-> [st EXCEPT !.node[p.remote] = "none"],
                    p |-> [p EXCEPT !.pc = "marker"]]
      [] p.pc = "marker" ->
           IF DirExists(st.node, DiskParent(p.remote))
           THEN [st |-> [st EXCEPT !.marker = st.marker \cup {p.remote}],
                 p |-> [p EXCEPT !.pc = "setdeleted"]]
           ELSE [st |-> st, p |-> Returned(p, "IO")]
      [] OTHER ->
           [st |-> [st EXCEPT !.db = SetDeleted(st.db, p.remote, p.now)],
            p |-> [Returned(p, "nil") EXCEPT !.obj.deleted = TRUE]]

\*   osremove    os.Remove of the content file (473-476)
\*   marker      os.Create of the .delete file (479-484)
\*   setdeleted  UPDATE under dbLock, then o.deleted (487-496)
AdvanceRemove(st, p) ==
    CASE p.pc = "osremove" ->
           LET removed == OsRemove(st.node, st.marker, fullPath(p.remote))
           IN IF removed = "error" THEN [st |-> st, p |-> Returned(p, "IO")]
              ELSE [st |-> IF removed = "gone"
                           THEN [st EXCEPT !.node[p.remote] = "none"] ELSE st,
                    p |-> [p EXCEPT !.pc = "marker"]]
      [] p.pc = "marker" ->
           IF DirExists(st.node, DiskParent(p.remote))
           THEN [st |-> [st EXCEPT !.marker = st.marker \cup {p.remote}],
                 p |-> [p EXCEPT !.pc = "setdeleted"]]
           ELSE [st |-> st, p |-> Returned(p, "IO")]
      [] OTHER ->
           [st |-> [st EXCEPT !.db = SetDeleted(st.db, p.remote, p.now)],
            p |-> [Returned(p, "nil") EXCEPT !.obj.deleted = TRUE]]

RmdirProc(dir) ==
    [op |-> "Rmdir", remote |-> dir, pc |-> "osremove", err |-> "nil"]

\*   osremove  os.Remove of the directory (350-356)
\*   count     SELECT COUNT(*) under dbLock (358-370)
\*   delete    DELETE, still under the same dbLock (373-375)
AdvanceRmdir(st, p) ==
    CASE p.pc = "osremove" ->
           LET removed == OsRemove(st.node, st.marker, fullPath(p.remote))
           IN IF removed = "notexist"
              THEN [st |-> st, p |-> Returned(p, "ErrorDirNotFound")]
              ELSE IF removed = "error" THEN [st |-> st, p |-> Returned(p, "IO")]
              ELSE [st |-> [st EXCEPT !.node[p.remote] = "none"],
                    p |-> [p EXCEPT !.pc = "count"]]
      [] p.pc = "count" ->
           [st |-> st,
            p |-> IF RmdirCount(st.db, p.remote) > 0
                  THEN Returned(p, "NotEmpty")
                  ELSE [p EXCEPT !.pc = "delete"]]
      [] OTHER ->
           [st |-> [st EXCEPT !.db = DeleteDir(st.db, p.remote)],
            p |-> Returned(p, "nil")]

MkdirProc(dir, now) ==
    [op |-> "Mkdir", remote |-> dir, now |-> now, pc |-> "mkdirall", err |-> "nil"]

\*   mkdirall  os.MkdirAll (338-341)
\*   ensure    ensureDirectoryStructure (343)
AdvanceMkdir(st, p) ==
    CASE p.pc = "mkdirall" ->
           [st |-> [st EXCEPT !.node = MkdirAllNode(st.node, fullPath(p.remote))],
            p |-> IF MkdirAllOk(st.node, fullPath(p.remote))
                  THEN [p EXCEPT !.pc = "ensure"]
                  ELSE Returned(p, "IO")]
      [] OTHER ->
           [st |-> [st EXCEPT !.db = ensureDirectoryStructure(st.db, p.remote, p.now)],
            p |-> Returned(p, "nil")]

SetModTimeProc(o, modTime) ==
    [op |-> "SetModTime", remote |-> o.remote, modTime |-> modTime, obj |-> o,
     pc |-> "setmodtime", err |-> "nil"]

ListProc(dir) ==
    [op |-> "List", remote |-> dir, pc |-> "list", err |-> "nil"]

NewObjectProc(remote) ==
    [op |-> "NewObject", remote |-> remote, pc |-> "find", err |-> "nil"]

\* The next statement of any call in flight.  SetModTime, List and
\* NewObject are one statement each.
Statement(st, p) ==
    CASE p.op = "Put" -> Advance(st, p)
      [] p.op = "Update" -> AdvanceUpdate(st, p)
      [] p.op = "Remove" -> AdvanceRemove(st, p)
      [] p.op = "Rmdir" -> AdvanceRmdir(st, p)
      [] p.op = "Mkdir" -> AdvanceMkdir(st, p)
      [] p.op = "SetModTime" ->
           [st |-> [st EXCEPT !.db = SetModTimeRow(st.db, p.remote, p.modTime)],
            p |-> [Returned(p, "nil") EXCEPT !.obj.modTime = p.modTime]]
      [] p.op = "List" -> [st |-> st, p |-> Returned(p, "nil")]
      [] OTHER ->
           [st |-> st,
            p |-> Returned(p, IF NewObject(st.db, p.remote) = {}
                              THEN "ErrorObjectNotFound" ELSE "nil")]

\* The mode in which the statement at p.pc runs under dbLock: "r" inside
\* RLock/RUnlock, "w" inside Lock/Unlock, "none" outside.
LockOf(p) ==
    CASE p.pc \in {"lookup", "list", "find"} -> "r"
      [] p.pc \in {"ensure", "upsert", "update", "setdeleted", "setmodtime",
                   "count", "delete"} -> "w"
      [] OTHER -> "none"

\* Mutant: Unlock written at the end of the function instead of deferred, so
\* that an error return keeps the lock.
Deferred_EndOfFunction(p, q) ==
    IF p.op = "Rmdir" /\ p.pc = "count" /\ q.pc = "delete" THEN p.lock
    ELSE IF q.err # "nil" THEN p.lock
    ELSE "none"

\* What the call holds after the statement that leads from p to q: the
\* deferred Unlock or RUnlock runs when the function that locked returns,
\* whatever it returns.  Only Rmdir has two statements in one locked region.
Deferred(p, q) ==
    IF p.op = "Rmdir" /\ p.pc = "count" /\ q.pc = "delete" THEN p.lock
    ELSE "none"

\* A call as the driver starts it: it holds nothing and waits for nothing.
Unlocked(p) ==
    p @@ [lock |-> "none", want |-> "none"]

\* Mutant: Lock is granted like RLock, it waits for writers only.
CanGrant_ReadersPass(id) ==
    \A other \in DOMAIN proc :
        proc[other].lock # "w" /\ (other # id => proc[other].want # "w" \/ proc[id].want = "w")

\* sync.RWMutex: RLock is granted when no writer holds the lock and none is
\* waiting for it, Lock when nobody holds the lock, the caller included.
CanGrant(id) ==
    IF proc[id].want = "r"
    THEN \A other \in DOMAIN proc :
            proc[other].lock # "w" /\ (other # id => proc[other].want # "w")
    ELSE \A other \in DOMAIN proc : proc[other].lock = "none"

\* The call id takes its next step: it calls Lock or RLock, is granted the
\* lock it waits for, or executes its statement and whatever is deferred.
LockStep(id) ==
    /\ id \in DOMAIN proc
    /\ proc[id].pc # "done"
    /\ IF proc[id].want # "none"
       THEN /\ CanGrant(id)
            /\ proc' = [proc EXCEPT ![id].lock = proc[id].want, ![id].want = "none"]
            /\ UNCHANGED <<db, node, marker>>
       ELSE IF LockOf(proc[id]) # "none" /\ proc[id].lock # LockOf(proc[id])
       THEN /\ proc' = [proc EXCEPT ![id].want = LockOf(proc[id])]
            /\ UNCHANGED <<db, node, marker>>
       ELSE LET r == Statement(State(db, node, marker), proc[id])
            IN /\ db' = r.st.db
               /\ node' = r.st.node
               /\ marker' = r.st.marker
               /\ proc' = [proc EXCEPT ![id] =
                              [r.p EXCEPT !.lock = Deferred(proc[id], r.p)]]
    /\ UNCHANGED <<last, held, start>>

\* The path and the directory the concurrent calls work on.
LockRemote == <<"a", "b">>
LockDir == <<"a">>
LockCandidate == [content |-> "c1", modTime |-> 0, hashes |-> "md5"]

\* The calls the driver may start at a state: object methods are called on an
\* object it has just looked up.
LockCalls ==
    {PutProc(LockRemote, LockCandidate, Parse(MaxSec)),
     MkdirProc(LockDir, Parse(MaxSec)),
     RmdirProc(LockDir),
     ListProc(LockDir),
     NewObjectProc(LockRemote)}
    \cup {UpdateProc(o, LockCandidate) : o \in NewObject(db, LockRemote)}
    \cup {RemoveProc(o, Parse(MaxSec)) : o \in NewObject(db, LockRemote)}
    \cup {SetModTimeProc(o, 0) : o \in NewObject(db, LockRemote)}

\* The driver starts two calls at once.
IssueLocked(p1, p2) ==
    /\ Idle
    /\ proc' = [id \in Procs |-> Unlocked(IF id = "p1" THEN p1 ELSE p2)]
    /\ UNCHANGED <<db, node, marker, last, held, start>>

NextLock ==
    \/ \E p1, p2 \in LockCalls : IssueLocked(p1, p2)
    \/ \E id \in Procs : LockStep(id)
    \/ Collect

\* The scheduler runs every goroutine that can run: a call that can take a
\* step does not wait forever.
SpecLock ==
    Init /\ [][NextLock]_vars /\ \A id \in Procs : WF_vars(LockStep(id))

\* ------------------------------------------------- a process that stops
\* A call of the first run, or of the run after the process was started again.
Run(p, rerun) ==
    p @@ [rerun |-> rerun]

\* The driver starts a Put, or a Remove on an object it has just looked up,
\* while nothing is left to repeat.
IssueRun(p) ==
    /\ Idle
    /\ start = NoRows
    /\ proc' = [id \in {"p1"} |-> Run(p, FALSE)]
    /\ UNCHANGED <<db, node, marker, last, held, start>>

\* The call in flight executes its next statement.
StepRun(id) ==
    /\ id \in DOMAIN proc
    /\ proc[id].pc # "done"
    /\ LET r == Statement(State(db, node, marker), proc[id])
       IN /\ db' = r.st.db
          /\ node' = r.st.node
          /\ marker' = r.st.marker
          /\ proc' = [proc EXCEPT ![id] = r.p]
    /\ UNCHANGED <<last, held, start>>

\* The process stops after io.Copy and before the upsert of a Put (302-312),
\* or after the marker file and before the UPDATE of a Remove (484-487).
\* Table, tree and markers are what the call left; start keeps the call.
Stop(id) ==
    /\ id \in DOMAIN proc
    /\ ~proc[id].rerun
    /\ \/ proc[id].op = "Put" /\ proc[id].pc = "upsert"
       \/ proc[id].op = "Remove" /\ proc[id].pc = "setdeleted"
    /\ start' = proc
    /\ proc' = NoRows
    /\ UNCHANGED <<db, node, marker, last, held>>

Stopped ==
    Idle /\ start # NoRows

\* The same operation is run again for the path: the Put with its candidate,
\* the Remove on the object NewObject finds now.
Rerun ==
    /\ Stopped
    /\ \E id \in DOMAIN start :
          proc' = [k \in {id} |->
                     IF start[id].op = "Put"
                     THEN Run(PutProc(start[id].remote, start[id].src, start[id].now), TRUE)
                     ELSE Run(RemoveProc(CHOOSE o \in NewObject(db, start[id].remote) : TRUE,
                                         start[id].now), TRUE)]
    /\ \A id \in DOMAIN start :
          start[id].op = "Remove" => NewObject(db, start[id].remote) # {}
    /\ UNCHANGED <<db, node, marker, last, held, start>>

NextRun ==
    \/ \E src \in HandleCandidates, now \in LateClock : IssueRun(PutProc(TheFile, src, now))
    \/ \E o \in NewObject(db, TheFile), now \in LateClock : IssueRun(RemoveProc(o, now))
    \/ \E id \in Procs : StepRun(id)
    \/ \E id \in Procs : Stop(id)
    \/ Rerun
    \/ Collect

\* The operation is run again after a stop, and a call that runs goes on.
SpecRun ==
    Init /\ [][NextRun]_vars /\ WF_vars(Rerun) /\ \A id \in Procs : WF_vars(StepRun(id))

\* ------------------------------------------------------------------ claims
\* A live record: a row that is neither tombstoned nor a directory.
Live(d, remote) ==
    remote \in DOMAIN d /\ ~d[remote].deleted /\ ~d[remote].is_dir

Tombstoned(d, remote) ==
    remote \in DOMAIN d /\ d[remote].deleted

\* The parent directory in the sense of the listing: "" for a top-level path.
Parent(remote) ==
    SubSeq(remote, 1, Len(remote) - 1)

\* C1: idempotence of Put.  After a Put that returned without error (and after
\* any content files were taken away since), a second Put of the same candidate
\* at the same path is a skip and returns the record data the first call
\* stored.  Stated for the candidates that carry their MD5 digest.
C1_PutTwiceSkips ==
    (last.op = "Put" /\ last.err = "nil") =>
        \A src \in last.cand :
            src.hashes = "md5" =>
                /\ PutDecision(db, last.path, src) = "skip"
                /\ PutReturn(db, last.path, src, "skip")
                      = {Scan(db[last.path], last.path)}

\* C2: change detection.  For every live record and every candidate that
\* differs from it in size, in modTime, or (when the source supports MD5) in
\* hash, Put decides update.
CandidateDiffers(src, row) ==
    \/ SizeOf(src.content) # row.size
    \/ src.modTime # Parse(row.mod_time)
    \/ (src.hashes # "none" /\ SrcHash(src) # row.hash)

C2_DifferingCandidateUpdates ==
    \A remote \in Remotes, src \in Candidates :
        (Live(db, remote) /\ CandidateDiffers(src, db[remote]))
            => PutDecision(db, remote, src) = "update"

\* A Put of a candidate that carries its digest found a live record and
\* decided update.
C2_Witness ==
    /\ last.op = "Put" /\ last.decision = "update" /\ last.err = "nil"
    /\ \A src \in last.cand : src.hashes = "md5"

\* The consumer's step: some content file is taken away.
ConsumeStep ==
    \E remote \in Remotes : Consume(remote)

\* C3: content independence.  A step that only takes a content file away
\* leaves every stored record as it was, and NewObject, List and Put's decision
\* answer after it what they answered before it, for every argument.
C3_ContentIndependence ==
    [][ConsumeStep =>
          /\ db' = db
          /\ \A remote \in Remotes : NewObject(db, remote)' = NewObject(db, remote)
          /\ \A dir \in ListArgs : List(db, dir)' = List(db, dir)
          /\ \A remote \in Remotes, src \in Candidates :
                PutDecision(db, remote, src)' = PutDecision(db, remote, src)]_vars

\* An ingested file whose content is gone is found, listed and skipped.
C3_Witness ==
    /\ last.op = "Put" /\ last.decision = "skip" /\ last.err = "nil"
    /\ node[last.path] = "none"
    /\ NewObject(db, last.path) # {}
    /\ \E e \in List(db, Parent(last.path)) : e.remote = last.path

\* C4: tombstone round trip.  After Remove returned without error for a path
\* (and after any content files were taken away since), NewObject finds nothing
\* there, the row is still in the table with deleted set and is no directory,
\* an object read from the row reports size 0, and the marker file exists.
C4_TombstoneRoundTrip ==
    (last.op = "Remove" /\ last.err = "nil") =>
        /\ NewObject(db, last.path) = {}
        /\ last.path \in DOMAIN db
        /\ db[last.path].deleted
        /\ ~db[last.path].is_dir
        /\ ObjSize(Scan(db[last.path], last.path)) = 0
        /\ last.path \in marker

\* A tombstone with a stored size above 0 and its marker, after the consumer
\* has emptied the content tree of another file that is still live.
C4_Witness ==
    /\ last.op = "Remove" /\ last.err = "nil"
    /\ db[last.path].size > 0
    /\ last.path \in marker
    /\ \A remote \in Remotes : node[remote] \notin Contents
    /\ \E remote \in Remotes : Live(db, remote)

\* The driver's step: a Put at remote, of any candidate at any clock reading.
PutStep(remote) ==
    \E src \in Candidates, now \in Clock : Put(remote, src, now)

\* C5: resurrection.  Every Put at a tombstoned path decides create, whatever
\* the candidate; when it returns without error the row has deleted cleared,
\* NewObject finds the path and List of its parent holds it as a file entry.
C5_Resurrection ==
    [][\A remote \in Remotes :
          (Tombstoned(db, remote) /\ PutStep(remote)) =>
              /\ last'.decision = "create"
              /\ last'.err = "nil" =>
                    /\ ~db'[remote].deleted
                    /\ NewObject(db', remote) # {}
                    /\ \E e \in List(db', Parent(remote)) :
                          e.remote = remote /\ e.kind = "file"]_vars

\* A create at a path whose marker file exists, by a candidate with a
\* whole-second modtime: the path is live and visible again.
C5_Witness ==
    /\ last.op = "Put" /\ last.decision = "create" /\ last.err = "nil"
    /\ last.path \in marker
    /\ Live(db, last.path)
    /\ \A src \in last.cand : \E s \in Secs : src.modTime = Parse(s)

\* C6: listing scope.  In every state and for every dir, List(dir) holds one
\* entry for each non-deleted row whose parent is dir (for "" the rows without
\* separator) and nothing else: a directory entry for an is_dir row, a file
\* entry otherwise.
C6_ListingScope ==
    \A dir \in ListArgs :
        {<<e.remote, e.kind>> : e \in List(db, dir)}
            = {<<k, IF db[k].is_dir THEN "dir" ELSE "file">> :
                  k \in {r \in DOMAIN db : ~db[r].deleted /\ Parent(r) = dir}}

\* The rows a, a/b, a/b/c with a sibling tombstone: List("a") is a/b alone,
\* List("a/b") is a/b/c alone, and List("A") is empty.
C6_Witness ==
    /\ last.op = "List" /\ last.path = <<"a">>
    /\ {<<"a">>, <<"a", "b">>, <<"a", "b", "c">>, <<"A">>} \subseteq DOMAIN db
    /\ db[<<"A">>].deleted
    /\ {e.remote : e \in List(db, <<"a">>)} = {<<"a", "b">>}
    /\ {e.remote : e \in List(db, <<"a", "b">>)} = {<<"a", "b", "c">>}
    /\ List(db, <<"A">>) = {}

\* The driver's step: a NewObject call.
LookupStep ==
    \E remote \in Remotes : Lookup(remote)

\* C7: NewObject.  In every state and for every path, NewObject returns an
\* object exactly when the table holds a row for that path that is neither
\* deleted nor a directory, and the object carries that path and that row's
\* size and hash; the call reports ErrorObjectNotFound exactly otherwise; and
\* a NewObject call changes neither the table nor the content tree.
C7_Lookup ==
    /\ [](\A remote \in Remotes :
            /\ NewObject(db, remote) # {} <=> Live(db, remote)
            /\ \A o \in NewObject(db, remote) :
                  /\ o.remote = remote
                  /\ o.size = db[remote].size
                  /\ o.hash = db[remote].hash
                  /\ ~o.deleted /\ ~o.isDir)
    /\ []((last.op = "NewObject") =>
            (last.err = "ErrorObjectNotFound" <=> ~Live(db, last.path)))
    /\ [][LookupStep => (db' = db /\ node' = node /\ marker' = marker)]_vars

\* NewObject called on a directory row, and on a tombstone, found nothing.
C7_Witness ==
    /\ last.op = "NewObject" /\ last.err = "ErrorObjectNotFound"
    /\ last.path \in DOMAIN db
    /\ db[last.path].is_dir
    /\ \E remote \in Remotes : Tombstoned(db, remote) /\ NewObject(db, remote) = {}
    /\ \E remote \in Remotes : Live(db, remote)

\* A non-deleted row strictly under dir.
LiveUnder(d, dir) ==
    \E k \in DOMAIN d : Len(k) > Len(dir) /\ IsPrefixOrEq(dir, k) /\ ~d[k].deleted

HasDirRow(d, dir) ==
    dir \in DOMAIN d /\ d[dir].is_dir

\* Every directory on disk under dir has its row in the table.
SubdirsHaveRows(d, nd, dir) ==
    \A q \in Remotes :
        (Len(q) > Len(dir) /\ IsPrefixOrEq(dir, q) /\ nd[q] = "dir") => HasDirRow(d, q)

\* C8: directory emptiness gate.  Every Rmdir of a directory that has its row
\* and exists on disk, as do its subdirectories, is refused as not empty when a
\* non-deleted row lies strictly under it (os.Remove's "directory not empty"
\* counts as that refusal too), and otherwise returns without error with the
\* directory's row gone, also when only tombstones and their marker files
\* remain under it.
C8_RmdirGate ==
    [][\A dir \in Remotes :
          (/\ HasDirRow(db, dir) /\ node[dir] = "dir"
           /\ SubdirsHaveRows(db, node, dir)
           /\ Rmdir(dir)) =>
              IF LiveUnder(db, dir)
              THEN last'.err \in {"NotEmpty", "IO"}
              ELSE last'.err = "nil" /\ dir \notin DOMAIN db']_vars

\* C9: Rmdir reports ErrorDirNotFound exactly when the table holds no
\* directory row for the directory, whatever is on disk.
C9_RmdirNotFound ==
    [][\A dir \in Remotes :
          Rmdir(dir) =>
              (last'.err = "ErrorDirNotFound" <=> ~HasDirRow(db, dir))]_vars

\* C10: after Mkdir of a non-empty path returned without error, the table
\* holds an is_dir row for that path and List of its parent holds it as a
\* directory entry.
C10_MkdirMaterializes ==
    (last.op = "Mkdir" /\ last.err = "nil" /\ last.path # Root) =>
        /\ HasDirRow(db, last.path)
        /\ \E e \in List(db, Parent(last.path)) :
              e.remote = last.path /\ e.kind = "dir"

\* The record at remote is the same in both tables, or absent from both.
SameRecord(d1, d2, remote) ==
    /\ remote \in DOMAIN d1 <=> remote \in DOMAIN d2
    /\ remote \in DOMAIN d1 => d1[remote] = d2[remote]

\* C11: failure semantics.  Every step in which Put or Update returns an error
\* (the content file could not be created, or the stream broke while it was
\* copied) leaves the record of that path as it was: absent when it was absent,
\* the same row otherwise.
C11_FailureKeepsRecord ==
    [][(last'.op \in {"Put", "Update"} /\ last'.err # "nil")
          => SameRecord(db, db', last'.path)]_vars

\* A Put of other content broke while copying over a live record: the content
\* file is partial and the record is still live with its old hash.
C11_Witness ==
    /\ last.op = "Put" /\ last.err = "IO"
    /\ node[last.path] = Partial
    /\ Live(db, last.path)
    /\ \A src \in last.cand : MD5(src.content) # db[last.path].hash

\* The step is a Put call, or an Update call on an object just looked up: the
\* call that last' records.
PutCall ==
    /\ last'.op = "Put"
    /\ \E src \in last'.cand, now \in Clock : Put(last'.path, src, now)

UpdateCall ==
    /\ last'.op = "Update"
    /\ \E src \in last'.cand : UpdateFound(last'.path, src)

\* C12: the record after a write.  Every Put or Update that wrote (decision
\* create or update, no error) leaves a row with deleted and is_dir cleared, whose
\* size is the byte count of the content file it wrote and whose hash is the
\* MD5 digest of that file, equal to the digest the source reports when it
\* reports one.
C12_RecordDescribesContent ==
    [][(/\ PutCall \/ UpdateCall
        /\ last'.err = "nil" /\ last'.decision # "skip") =>
           LET remote == last'.path
           IN /\ ~db'[remote].deleted /\ ~db'[remote].is_dir
              /\ node'[remote] \in Contents
              /\ db'[remote].size = SizeOf(node'[remote])
              /\ db'[remote].has_hash
              /\ db'[remote].hash = MD5(node'[remote])
              /\ \A src \in last'.cand :
                    SrcHash(src) # "" => SrcHash(src) = db'[remote].hash]_vars

\* An update by a source without MD5 support wrote a two-byte file over a
\* record of another size.
C12_Witness ==
    /\ last.op \in {"Put", "Update"} /\ last.decision = "update" /\ last.err = "nil"
    /\ \A src \in last.cand : src.hashes = "none" /\ src.content = "c3"
    /\ node[last.path] = "c3"
    /\ db[last.path].size = 2 /\ db[last.path].hash = "h3"

\* C13: timestamp round trip.  The modTime an object read back by NewObject
\* carries equals the modTime the Put or the SetModTime that wrote it was
\* given, sub-second part included.
C13_ModTimeRoundTrip ==
    [][/\ (PutCall /\ last'.err = "nil" /\ last'.decision # "skip") =>
              \A src \in last'.cand, o \in NewObject(db', last'.path) :
                  o.modTime = src.modTime
       /\ \A remote \in Remotes, t \in Ticks :
              SetModTimeFound(remote, t) =>
                  \A o \in NewObject(db', remote) : o.modTime = t]_vars

\* C16: a skip changes nothing.  Every Put or Update that decides skip leaves
\* the table, the content tree and the marker files as they were.
C16_SkipChangesNothing ==
    [][((PutCall \/ UpdateCall) /\ last'.decision = "skip") =>
          /\ db' = db
          /\ node' = node
          /\ marker' = marker]_vars

\* A Put skipped at a path whose content file is gone, beside directory rows.
C16_Witness ==
    /\ last.op = "Put" /\ last.decision = "skip"
    /\ node[last.path] = "none"
    /\ \E k \in DOMAIN db : db[k].is_dir

\* C17: SetModTime is a metadata-only update.  Every SetModTime leaves the
\* set of rows, every other row and every field of its row but mod_time as they
\* were, and touches neither the content tree nor the marker files.
C17_SetModTimeOnly ==
    [][\A remote \in Remotes, t \in Ticks :
          SetModTimeFound(remote, t) =>
              /\ DOMAIN db' = DOMAIN db
              /\ \A k \in DOMAIN db : k # remote => db'[k] = db[k]
              /\ db'[remote] = [db[remote] EXCEPT !.mod_time = Format(t)]
              /\ node' = node
              /\ marker' = marker]_vars

\* A SetModTime moved a hashed record to the last second, beside other rows.
C17_Witness ==
    /\ last.op = "SetModTime" /\ last.err = "nil"
    /\ db[last.path].mod_time = MaxSec
    /\ db[last.path].has_hash /\ db[last.path].size = 2
    /\ \E k \in DOMAIN db : k # last.path /\ db[k].mod_time # MaxSec

\* C14: Remove whatever the content tree holds.  Every Remove of a live
\* record whose content file is absent returns without error, with the marker
\* file present and the row flagged deleted, also when the directory of the
\* file is no longer on disk.
C14_RemoveAnyDiskState ==
    [][\A remote \in Remotes, now \in LateClock :
          (node[remote] = "none" /\ RemoveFound(remote, now)) =>
              /\ last'.err = "nil"
              /\ remote \in marker'
              /\ db'[remote].deleted]_vars

\* C18: rows are never purged.  No step takes the row of a file away, and a
\* step that takes a row away is an Rmdir that takes away the one row of its
\* directory, an is_dir row.
C18_NoPurge ==
    [][/\ \A k \in DOMAIN db : ~db[k].is_dir => k \in DOMAIN db'
       /\ ~(DOMAIN db \subseteq DOMAIN db') =>
              \E dir \in DirArgs :
                  /\ Rmdir(dir)
                  /\ DOMAIN db \ DOMAIN db' = {dir}
                  /\ db[dir].is_dir]_vars

\* An Rmdir returned without error and its directory has no row, while a
\* tombstone and a live record are in the table.
C18_Witness ==
    /\ last.op = "Rmdir" /\ last.err = "nil"
    /\ last.path \notin DOMAIN db
    /\ \E k \in DOMAIN db : Tombstoned(db, k) /\ ~db[k].is_dir
    /\ \E k \in DOMAIN db : Live(db, k)

\* C15: reported size of a tombstone.  In every state, every object the driver
\* keeps for a path whose row is flagged deleted reports size 0: the object
\* Remove was called on, and the objects obtained before the Remove.
C15_TombstoneSizeZero ==
    \A h \in DOMAIN held :
        Tombstoned(db, held[h].remote) => ObjSize(held[h]) = 0

\* The call as it was issued.
Fresh(p) ==
    PutProc(p.remote, p.src, p.now)

\* The table with the timestamps of the directory rows left out.
Masked(d) ==
    [k \in DOMAIN d |-> IF d[k].is_dir THEN [d[k] EXCEPT !.mod_time = 0] ELSE d[k]]

\* The tables the two calls in flight leave when run one after the other from
\* the state they were issued in, in either order.
SerialTables ==
    {Finish(Finish(start, Fresh(proc["p1"])), Fresh(proc["p2"])).db,
     Finish(Finish(start, Fresh(proc["p2"])), Fresh(proc["p1"])).db}

\* C19: last writer wins.  When two Puts of one path issued at once have both
\* written and returned, the row of the path describes the content file: its
\* size is the file's byte count and its hash the file's digest.
C19_LastWriterWins ==
    (/\ AllDone
     /\ proc["p1"].remote = proc["p2"].remote
     /\ \A id \in Procs : proc[id].err = "nil" /\ proc[id].decision # "skip") =>
        LET remote == proc["p1"].remote
        IN /\ node[remote] \in Contents
           /\ db[remote].size = SizeOf(node[remote])
           /\ db[remote].hash = MD5(node[remote])

C22_AncestorsMaterialized ==
    (last.op = "Put" /\ last.err = "nil" /\ last.decision # "skip") =>
        \A i \in 1..(Len(last.path) - 1) : HasDirRow(db, SubSeq(last.path, 1, i))

\* A step of a call that runs ensureDirectoryStructure: a Put that does not
\* skip, whatever it returns, or a Mkdir that passed os.MkdirAll.
MaterializeStep ==
    \/ /\ last'.decision # "skip"
       /\ PutCall
    \/ /\ last'.op = "Mkdir"
       /\ last'.err = "nil"
       /\ \E now \in Clock : Mkdir(last'.path, now)

\* C23: insert-if-absent.  Directory materialization never modifies a row that
\* exists: every path that had a row before the call (file, directory or
\* tombstone) has the identical row after it, the path a Put writes aside, and
\* every other row the call adds is a prefix of the parent path with
\* is_dir = 1, deleted = 0, size 0 and no hash.
C23_InsertIfAbsent ==
    [][MaterializeStep =>
        /\ \A k \in DOMAIN db :
              (last'.op = "Put" => k # last'.path) => (k \in DOMAIN db' /\ db'[k] = db[k])
        /\ \A k \in DOMAIN db' \ DOMAIN db :
              (last'.op = "Put" => k # last'.path) =>
                 /\ IsPrefixOrEq(k, PathDir(last'.path))
                 /\ db'[k].is_dir /\ ~db'[k].deleted
                 /\ db'[k].size = 0 /\ ~db'[k].has_hash /\ db'[k].hash = ""]_vars

\* A Put under an ancestor path that holds a tombstone has returned; the row
\* of "." carries the second of the call, the file row that of its candidate.
C23_Witness ==
    /\ last.op = "Put" /\ last.decision = "create" /\ last.err = "nil"
    /\ last.path = <<"a", "b">>
    /\ Tombstoned(db, <<"a">>)
    /\ Dot \in DOMAIN db /\ db[Dot].mod_time # db[last.path].mod_time

\* A step that is a Remove of an object just looked up.
RemoveCall ==
    /\ last'.op = "Remove"
    /\ \E now \in Clock : RemoveFound(last'.path, now)

\* C29: frame of Remove.  A Remove of the path changes only the deleted flag
\* and mod_time of the row of that path: its size, hash, has_hash and is_dir
\* keep their values, and no other row is inserted, removed or modified.
C29_RemoveFrame ==
    [][RemoveCall =>
          /\ DOMAIN db' = DOMAIN db
          /\ \A k \in DOMAIN db : k # last'.path => db'[k] = db[k]
          /\ db'[last'.path].size = db[last'.path].size
          /\ db'[last'.path].hash = db[last'.path].hash
          /\ db'[last'.path].has_hash = db[last'.path].has_hash
          /\ db'[last'.path].is_dir = db[last'.path].is_dir]_vars

\* A Remove has flagged a row that has a size and a hash, next to another
\* file row and a directory row.
C29_Witness ==
    /\ last.op = "Remove" /\ last.err = "nil"
    /\ Tombstoned(db, last.path)
    /\ db[last.path].size # 0 /\ db[last.path].has_hash
    /\ \E k \in DOMAIN db : k # last.path /\ Live(db, k) /\ ~db[k].is_dir
    /\ \E k \in DOMAIN db : db[k].is_dir

\* C30: directory rows are never tombstoned.  In every state reachable by any
\* sequence of operations, those issued on objects obtained earlier included,
\* no row has is_dir = 1 and deleted = 1 at the same time.
C30_NoDirTombstone ==
    \A k \in DOMAIN db : ~(db[k].is_dir /\ db[k].deleted)

\* A Remove on a kept object has tombstoned a path while the table holds
\* directory rows, one of them the parent of a row a Put wrote.
C30_Witness ==
    /\ last.op = "Remove" /\ last.err = "nil"
    /\ Tombstoned(db, last.path)
    /\ \E h \in DOMAIN held : held[h].remote = last.path /\ held[h].deleted
    /\ HasDirRow(db, <<"a">>)
    /\ <<"a", "b">> \in DOMAIN db

\* C26: Object.Update applies the compare-before-write policy of Put.  Called
\* with a candidate whose size, modTime and (when comparable) hash equal the
\* object's record it skips and leaves table, tree and markers alone; called
\* with a candidate that differs in size, in modTime or in hash it decides
\* update and, returning without error, has written the content and the row.
C26_UpdatePolicy ==
    [][UpdateCall =>
          \A src \in last'.cand :
              IF CandidateDiffers(src, db[last'.path])
              THEN /\ last'.decision = "update"
                   /\ last'.err = "nil" =>
                         /\ node'[last'.path] = src.content
                         /\ db'[last'.path] = FileRow(src)
              ELSE /\ last'.decision = "skip"
                   /\ db' = db /\ node' = node /\ marker' = marker]_vars

\* C27: the hash takes part in Put's decision only when the candidate provides
\* one.  Every Put of a candidate without a digest (the source has no MD5, or
\* has it and returns none for this file) whose size and modTime equal those
\* of the live record of the path decides skip.
C27_NoHashSkips ==
    [][PutCall =>
          \A src \in last'.cand :
              (/\ SrcHash(src) = ""
               /\ NewObject(db, last'.path) # {}
               /\ SizeOf(src.content) = db[last'.path].size
               /\ src.modTime = Parse(db[last'.path].mod_time))
                  => last'.decision = "skip"]_vars

\* A step that is an Update on a kept object.
UpdateHeldCall(h) ==
    /\ last'.op = "Update"
    /\ \E src \in last'.cand : UpdateHeld(h, src)

\* C28: Update decides against the stored record.  When the row of a path was
\* changed after an object for the path was obtained, an Update on that object
\* decides skip or update as its comparison does on the row as it is in the
\* table at the time of the call, not on the fields the object carries.
C28_UpdateReadsStore ==
    [][\A h \in Handles :
          UpdateHeldCall(h) =>
             \A src \in last'.cand :
                 last'.decision =
                    IF UpdateShouldUpdate(src, Scan(db[last'.path], last'.path))
                    THEN "update" ELSE "skip"]_vars

\* The part of a transfer a statement belongs to: "a" the materialization of
\* the parent directories in the table, "b" the creation of the content
\* directory, "c" the streaming of the content, "d" the metadata write.
Part(pc) ==
    CASE pc = "ensure" -> "a"
      [] pc = "mkdir" -> "b"
      [] pc \in {"create", "copy"} -> "c"
      [] pc \in {"upsert", "update"} -> "d"
      [] OTHER -> ""

\* The parts the call has gone through, one entry per statement.
Parts(p) ==
    [i \in 1..Len(SelectSeq(p.trace, LAMBDA pc : Part(pc) # "")) |->
        Part(SelectSeq(p.trace, LAMBDA pc : Part(pc) # "")[i])]

\* C25: step order of a transfer.  Every Put and every Update that transfers
\* content goes through (a) directory materialization, (b) creation of the
\* content directory, (c) streaming, (d) the metadata write, in this order:
\* at every moment the parts it has gone through are an initial piece of
\* a, b, c, c, d, so that the metadata write is never first and never comes
\* before the content write is complete.
C25_StepOrder ==
    \A id \in DOMAIN proc :
        /\ Len(Parts(proc[id])) <= 5
        /\ Parts(proc[id]) = SubSeq(<<"a", "b", "c", "c", "d">>, 1, Len(Parts(proc[id])))

\* C24: atomic materialization.  The rows one ensureDirectoryStructure call
\* inserts are committed as one unit: while the call is inside its
\* transaction the table is the one it started from, so nobody reads only
\* some of its rows; when a statement of the transaction fails the table is
\* the one it started from, no row inserted and no row touched; and when the
\* transaction has committed the table holds all the rows of the call.
C24_AtomicMaterialization ==
    \A id \in DOMAIN proc :
        /\ InTx(proc[id]) => db = start.db
        /\ (proc[id].pc = "done" /\ proc[id].err = "Tx") => db = start.db
        /\ proc[id].pc = "mkdir" =>
              db = ensureDirectoryStructure(start.db, proc[id].remote, proc[id].now)

\* The second INSERT of a call has failed after the first one had put a row
\* for an absent directory into the transaction, beside rows that existed.
C24_Witness ==
    \E id \in DOMAIN proc :
        /\ proc[id].pc = "done" /\ proc[id].err = "Tx" /\ proc[id].i = 2
        /\ <<"a">> \notin DOMAIN start.db
        /\ DOMAIN start.db # {}

\* The call id has been started and has not returned.
Running(id) ==
    id \in DOMAIN proc /\ proc[id].pc # "done"

\* C21: no operation blocks indefinitely.  With any two of List, NewObject,
\* Put, Update, Mkdir, Rmdir, Remove and SetModTime in flight under a fair
\* scheduler: a call that has returned, with or without an error, holds no
\* lock and waits for none; no call asks for dbLock while it holds it; while
\* calls are in flight one of them can take a step; and every call that was
\* started eventually returns.
C21_NoBlocking ==
    /\ [](\A id \in DOMAIN proc :
              /\ proc[id].pc = "done" =>
                    (proc[id].lock = "none" /\ proc[id].want = "none")
              /\ proc[id].want # "none" => proc[id].lock = "none")
    /\ []((~Idle /\ ~AllDone) =>
              \E id \in DOMAIN proc :
                  Running(id) /\ (proc[id].want # "none" => CanGrant(id)))
    /\ \A id \in Procs : Running(id) ~> (id \in DOMAIN proc /\ proc[id].pc = "done")

\* A call has returned an error from inside its locked region while the other
\* call waits for the lock.
C21_Witness ==
    \E id, other \in DOMAIN proc :
        /\ proc[id].pc = "done" /\ proc[id].err = "NotEmpty"
        /\ proc[other].want = "w"

\* C35: materialization creates rows only for real ancestor directories.  No
\* row whose path is "." or empty ever exists, and a listing of the root never
\* returns an entry for such a path: a Put or Mkdir of a top-level path
\* inserts no directory row at all.
C35_OnlyRealAncestors ==
    /\ Dot \notin DOMAIN db
    /\ Root \notin DOMAIN db
    /\ \A entry \in List(db, Root) : entry.remote \notin {Dot, Root}

\* A step that is an Rmdir call.
RmdirCall ==
    /\ last'.op = "Rmdir"
    /\ Rmdir(last'.path)

\* C36: a refused directory removal changes nothing.  Every Rmdir that
\* returns an error, not-empty or any other, leaves the table, the content
\* tree with the directory itself, and the marker files as they were.
C36_RefusedRmdirChangesNothing ==
    [][(RmdirCall /\ last'.err # "nil") =>
          /\ db' = db
          /\ node' = node
          /\ marker' = marker]_vars

\* C37: a failed Put leaves the table unchanged.  Every Put that returns an
\* error, at directory creation, at file creation or while streaming, leaves
\* every row as it was before the call and adds none; no ancestor directory
\* row inserted for the failed transfer remains.
C37_FailedPutKeepsTable ==
    [][(last'.op = "Put" /\ last'.err # "nil"
        /\ \E src \in last'.cand, now \in Clock :
              Put(last'.path, src, now) \/ PutCopyFails(last'.path, src, now))
          => db' = db]_vars

\* The marker file of a path exists exactly when its row is flagged deleted.
MarkersAgree(d, mk) ==
    \A remote \in Remotes : remote \in mk <=> Tombstoned(d, remote)

\* C38: the two representations of deletion agree.  Every call of the
\* backend that returns without error, taken from a state in which a marker
\* file exists exactly for the rows flagged deleted, leads to such a state
\* again (steps of the consumer aside); so after a tombstoned path is written
\* again by Put or Update no marker file for it remains.
C38_MarkersAgree ==
    [][(MarkersAgree(db, marker) /\ ~ConsumeStep /\ last'.err = "nil")
          => MarkersAgree(db', marker')]_vars

\* C33: no orphan records.  In every state reached by Put, Update, Remove,
\* Mkdir and Rmdir calls issued one after the other, every row that is not
\* flagged deleted has, at each of its proper ancestor paths, a row with
\* is_dir = 1 that is not flagged deleted.
C33_NoOrphans ==
    \A k \in DOMAIN db :
        ~db[k].deleted =>
            \A i \in 1..(Len(k) - 1) :
                HasDirRow(db, SubSeq(k, 1, i)) /\ ~db[SubSeq(k, 1, i)].deleted

\* The calls that hold dbLock in the mode given.
Holders(mode) ==
    {id \in DOMAIN proc : proc[id].lock = mode}

\* C31: mutual exclusion on the table.  In every state at most one call is
\* inside a Lock region, and none is inside an RLock region (List, NewObject)
\* while one is; Rmdir holds the lock from its count to its DELETE, so that
\* the table does not change between the two and no live row lies under the
\* directory when the DELETE is executed.
C31_MutualExclusion ==
    /\ [](/\ Cardinality(Holders("w")) <= 1
          /\ Holders("w") # {} => Holders("r") = {}
          /\ \A id \in DOMAIN proc :
                (proc[id].op = "Rmdir" /\ proc[id].pc = "delete") =>
                   (proc[id].lock = "w" /\ RmdirCount(db, proc[id].remote) = 0))
    /\ [][\A id \in DOMAIN proc :
             (proc[id].op = "Rmdir" /\ proc[id].pc = "delete"
              /\ id \in DOMAIN proc' /\ proc'[id].pc = "delete") => db' = db]_vars

\* Rmdir has counted and holds the lock for its DELETE while a Put that has
\* written its content waits for the lock to write its row under the directory.
C31_Witness ==
    \E id, other \in DOMAIN proc :
        /\ proc[id].op = "Rmdir" /\ proc[id].pc = "delete" /\ proc[id].lock = "w"
        /\ proc[other].op = "Put" /\ proc[other].pc = "upsert" /\ proc[other].want = "w"

\* C34: Put under a directory racing Rmdir of the directory.  In every
\* interleaving of the statements of a Put of a path under d with those of
\* an Rmdir of d, once both have returned without error, the Put having
\* materialized d and written its row, the row of d exists if the row of the
\* path is live: Rmdir never deletes the row of d between the Put's
\* ensureDirectoryStructure and its INSERT OR REPLACE.
C34_PutRacesRmdir ==
    (/\ AllDone
     /\ \E id, other \in DOMAIN proc :
           /\ proc[id].op = "Put" /\ proc[id].err = "nil" /\ proc[id].decision # "skip"
           /\ proc[other].op = "Rmdir" /\ proc[other].err = "nil"
           /\ IsPrefixOrEq(proc[other].remote, PathDir(proc[id].remote))
     /\ Live(db, LockRemote))
        => HasDirRow(db, LockDir)

\* Content and metadata agree on what the call p was to do: after a Put the
\* row is the one of the candidate and the content file holds its bytes;
\* after a Remove the row is flagged deleted and the marker file exists.
Agreement(p) ==
    IF p.op = "Put"
    THEN /\ p.remote \in DOMAIN db
         /\ db[p.remote] = FileRow(p.src)
         /\ node[p.remote] = p.src.content
    ELSE /\ Tombstoned(db, p.remote)
         /\ p.remote \in marker

\* C32: self-healing by running the operation again.  When the process stops
\* between the content write and the upsert of a Put, or between the marker
\* file and the UPDATE of a Remove, running the same operation again for the
\* path eventually returns with content and metadata in agreement.
C32_SelfHealing ==
    Stopped ~> (\E id \in DOMAIN proc :
                   /\ proc[id].pc = "done" /\ proc[id].rerun /\ proc[id].err = "nil"
                   /\ Agreement(proc[id]))

\* A Remove run again after a stop has returned: the content file was gone
\* before it started, and the row is flagged and the marker is there.
C32_Witness ==
    \E id \in DOMAIN proc :
        /\ proc[id].op = "Remove" /\ proc[id].pc = "done" /\ proc[id].rerun
        /\ start # NoRows
        /\ Agreement(proc[id])

====
